---- MODULE Spec2Model ----
(***************************************************************************)
(* Model of src/app.py (the Hyperliquid OI dashboard): the three cached    *)
(* readers behind st.cache_data, the downsampler used for charting, and    *)
(* the ranking pass of main_app (metrics, the two top-10 views and the     *)
(* de-duplicated remainder list).                                          *)
(***************************************************************************)
EXTENDS Integers, Sequences, FiniteSets, TLC

(***************************************************************************)
(* Bounds of the model.                                                    *)
(***************************************************************************)
NCallers == 2        \* concurrent sessions calling the cached readers
MaxCalls == 2        \* cached calls started in one behaviour

VARIABLES
    dbPassword,   \* whether DB_PASSWORD is configured (module constant, line 12)
    dbVersion,    \* the content the database currently holds
    uriCache,     \* st.cache_resource entries of get_db_uri
    cache,        \* st.cache_data entries, per key
    lock,         \* per-key compute lock of st.cache_data: holder or 0
    pc,           \* each session's position in the cached call
    key,          \* the key each session is calling
    ret,          \* what each session's call ended with
    pending,      \* a computed value not yet written to the cache
    bodyRuns,     \* per key: invocations of the decorated function body
    backendCalls, \* per key: invocations of cx.read_sql
    expired,      \* per key: whether an entry's TTL has elapsed so far
    calls,        \* cached calls started so far
    df,             \* the series handed to the downsampler: rows in time order
    target_points,  \* the downsampler's target
    df_sampled,     \* downsample_data(df, target_points)
    df_resampled,   \* downsample_data(df_sampled, target_points)
    chart_df,       \* the series render_chart_component hands to the chart
    dsPc,           \* how far the downsampling has got
    target_symbols,    \* main_app: the symbols fetched, by descending oi_usd
    bulk_data,         \* per symbol: its rows in time order (<<>>: no entry)
    supply_data,       \* per symbol: <<>> or <<its reference record>>
    ranking_data,      \* main_app: one metrics record per ranked symbol
    top_intensity,     \* main_app: the view by intensity
    top_whales,        \* main_app: the view by oi_growth_usd
    shown_symbols,     \* main_app: the symbols of the two views
    remaining_symbols, \* main_app: the remainder list
    rankPc             \* how far main_app has got

cacheVars == <<dbPassword, dbVersion, uriCache, cache, lock, pc, key, ret,
               pending, bodyRuns, backendCalls, expired, calls>>

dsVars == <<df, target_points, df_sampled, df_resampled, chart_df, dsPc>>

rankVars == <<target_symbols, bulk_data, supply_data, ranking_data, top_intensity,
              top_whales, shown_symbols, remaining_symbols, rankPc>>

vars == <<cacheVars, dsVars, rankVars>>

Callers == 1..NCallers

DB_NAME_OI == "open_interest_db"
DB_NAME_SUPPLY == "circulating_supply"

\* The cached functions and the arguments they are called with.  The two
\* argument-less readers have one key each; fetch_bulk_data_one_shot has one
\* key per symbol list.
Keys ==
    { [fn |-> "fetch_circulating_supply", arg |-> <<>>],
      [fn |-> "get_sorted_symbols_by_oi_usd", arg |-> <<>>],
      [fn |-> "fetch_bulk_data_one_shot", arg |-> <<>>],
      [fn |-> "fetch_bulk_data_one_shot", arg |-> <<"BTC", "ETH">>] }

\* What cx.read_sql and the conversion after it can do on one call.
ReadOutcomes == {"ok", "ok_empty", "connect_error", "query_error", "convert_error"}

\* The empty mapping / empty list the readers fall back to.
EMPTY == "empty"
NoEntry == [present |-> FALSE]
NoRet == [outcome |-> "none"]

\* get_db_uri under st.cache_resource: a cached URI is returned as is; else the
\* body stops the script when no password is configured, and builds the URI
\* otherwise.
get_db_uri(db_name) ==
    IF db_name \in uriCache THEN "uri"
    ELSE IF ~dbPassword THEN "stop"
    ELSE "uri"

\* The body of a reader once the symbol-list check is passed: get_db_uri,
\* cx.read_sql, the conversion of the frame, all inside try/except Exception.
ReadBody(db_name, read) ==
    IF get_db_uri(db_name) = "stop"
    THEN [outcome |-> "stopped", value |-> EMPTY, backend |-> 0, failed |-> FALSE,
          uri |-> {}]
    ELSE IF read \in {"connect_error", "query_error"}
    THEN [outcome |-> "returned", value |-> EMPTY, backend |-> 1, failed |-> TRUE,
          uri |-> {db_name}]
    ELSE IF read = "ok_empty"
    THEN [outcome |-> "returned", value |-> EMPTY, backend |-> 1, failed |-> FALSE,
          uri |-> {db_name}]
    ELSE IF read = "convert_error"
    THEN [outcome |-> "returned", value |-> EMPTY, backend |-> 1, failed |-> TRUE,
          uri |-> {db_name}]
    ELSE [outcome |-> "returned", value |-> dbVersion, backend |-> 1, failed |-> FALSE,
          uri |-> {db_name}]

fetch_circulating_supply(read) == ReadBody(DB_NAME_SUPPLY, read)

get_sorted_symbols_by_oi_usd(read) == ReadBody(DB_NAME_OI, read)

\* A fetch whose except clause does not cover the conversion of the frame.
fetch_bulk_uncaught_conversion(symbol_list, read) ==
    IF symbol_list = <<>>
    THEN [outcome |-> "returned", value |-> EMPTY, backend |-> 0, failed |-> FALSE,
          uri |-> {}]
    ELSE IF get_db_uri(DB_NAME_OI) # "stop" /\ read = "convert_error"
    THEN [outcome |-> "raised", value |-> EMPTY, backend |-> 1, failed |-> TRUE,
          uri |-> {DB_NAME_OI}]
    ELSE ReadBody(DB_NAME_OI, read)

fetch_bulk_data_one_shot(symbol_list, read) ==
    IF symbol_list = <<>>
    THEN [outcome |-> "returned", value |-> EMPTY, backend |-> 0, failed |-> FALSE,
          uri |-> {}]
    ELSE ReadBody(DB_NAME_OI, read)

\* The decorated function body for key k.
Producer(k, read) ==
    IF k.fn = "fetch_circulating_supply" THEN fetch_circulating_supply(read)
    ELSE IF k.fn = "get_sorted_symbols_by_oi_usd" THEN get_sorted_symbols_by_oi_usd(read)
    ELSE fetch_bulk_data_one_shot(k.arg, read)

InitCache ==
    /\ dbPassword \in BOOLEAN
    /\ dbVersion = "rows_1"
    /\ uriCache = {}
    /\ cache = [k \in Keys |-> NoEntry]
    /\ lock = [k \in Keys |-> 0]
    /\ pc = [c \in Callers |-> "idle"]
    /\ key = [c \in Callers |-> CHOOSE k \in Keys : TRUE]
    /\ ret = [c \in Callers |-> NoRet]
    /\ pending = [c \in Callers |-> NoEntry]
    /\ bodyRuns = [k \in Keys |-> 0]
    /\ backendCalls = [k \in Keys |-> 0]
    /\ expired = [k \in Keys |-> FALSE]
    /\ calls = 0

\* A session calls a cached reader.
Call(c, k) ==
    /\ pc[c] = "idle"
    /\ calls < MaxCalls
    /\ calls' = calls + 1
    /\ key' = [key EXCEPT ![c] = k]
    /\ pc' = [pc EXCEPT ![c] = "read"]
    /\ UNCHANGED <<dbPassword, dbVersion, uriCache, cache, lock, ret, pending,
                   bodyRuns, backendCalls, expired>>
    /\ UNCHANGED <<dsVars, rankVars>>

\* st.cache_data: the first lookup, taken without the compute lock.
CacheRead(c) ==
    /\ pc[c] = "read"
    /\ IF cache[key[c]].present
       THEN /\ ret' = [ret EXCEPT ![c] = [outcome |-> "returned",
                                          value |-> cache[key[c]].value,
                                          via |-> "read", failed |-> FALSE]]
            /\ pc' = [pc EXCEPT ![c] = "done"]
       ELSE /\ pc' = [pc EXCEPT ![c] = "lock"]
            /\ ret' = ret
    /\ UNCHANGED <<dbPassword, dbVersion, uriCache, cache, lock, key, pending,
                   bodyRuns, backendCalls, expired, calls>>
    /\ UNCHANGED <<dsVars, rankVars>>

\* A cache that hands the compute lock to every session that asks.
LockFreeAlways(k) == TRUE

\* st.cache_data: the per-key compute lock is free.
LockFree(k) == lock[k] = 0

\* st.cache_data: a miss takes the key's compute lock.
AcquireLock(c) ==
    /\ pc[c] = "lock"
    /\ LockFree(key[c])
    /\ lock' = [lock EXCEPT ![key[c]] = c]
    /\ pc' = [pc EXCEPT ![c] = "recheck"]
    /\ UNCHANGED <<dbPassword, dbVersion, uriCache, cache, key, ret, pending,
                   bodyRuns, backendCalls, expired, calls>>
    /\ UNCHANGED <<dsVars, rankVars>>

\* st.cache_data: the second lookup, under the lock; a value another session
\* wrote meanwhile is served, else the body is to be computed.
Recheck(c) ==
    /\ pc[c] = "recheck"
    /\ IF cache[key[c]].present
       THEN /\ ret' = [ret EXCEPT ![c] = [outcome |-> "returned",
                                          value |-> cache[key[c]].value,
                                          via |-> "recheck", failed |-> FALSE]]
            /\ lock' = [lock EXCEPT ![key[c]] = 0]
            /\ pc' = [pc EXCEPT ![c] = "done"]
       ELSE /\ pc' = [pc EXCEPT ![c] = "compute"]
            /\ UNCHANGED <<ret, lock>>
    /\ UNCHANGED <<dbPassword, dbVersion, uriCache, cache, key, pending,
                   bodyRuns, backendCalls, expired, calls>>
    /\ UNCHANGED <<dsVars, rankVars>>

\* The decorated body runs.  A normal return (the fallback of the except
\* clause included) is handed to the cache; st.stop() in get_db_uri ends the
\* session's script run and leaves the with-block, releasing the lock.
RunBody(c, read) ==
    /\ pc[c] = "compute"
    /\ LET k == key[c]
           r == Producer(k, read)
       IN /\ bodyRuns' = [bodyRuns EXCEPT ![k] = @ + 1]
          /\ backendCalls' = [backendCalls EXCEPT ![k] = @ + r.backend]
          /\ uriCache' = uriCache \cup r.uri
          /\ IF r.outcome = "returned"
             THEN /\ pending' = [pending EXCEPT ![c] =
                                   [present |-> TRUE, value |-> r.value,
                                    fromFailure |-> r.failed]]
                  /\ pc' = [pc EXCEPT ![c] = "write"]
                  /\ UNCHANGED <<ret, lock>>
             ELSE /\ ret' = [ret EXCEPT ![c] = [outcome |-> r.outcome,
                                                value |-> r.value, via |-> "compute",
                                                failed |-> r.failed]]
                  /\ lock' = [lock EXCEPT ![k] = IF @ = c THEN 0 ELSE @]
                  /\ pc' = [pc EXCEPT ![c] = "done"]
                  /\ pending' = pending
    /\ UNCHANGED <<dbPassword, dbVersion, cache, key, expired, calls>>
    /\ UNCHANGED <<dsVars, rankVars>>

\* st.cache_data: the returned value is stored under the key (its TTL starts),
\* the lock is released and the value is handed to the caller.
WriteResult(c) ==
    /\ pc[c] = "write"
    /\ cache' = [cache EXCEPT ![key[c]] =
                    [present |-> TRUE, value |-> pending[c].value,
                     fromFailure |-> pending[c].fromFailure]]
    /\ ret' = [ret EXCEPT ![c] = [outcome |-> "returned", value |-> pending[c].value,
                                  via |-> "compute", failed |-> pending[c].fromFailure]]
    /\ pending' = [pending EXCEPT ![c] = NoEntry]
    /\ lock' = [lock EXCEPT ![key[c]] = IF @ = c THEN 0 ELSE @]
    /\ pc' = [pc EXCEPT ![c] = "done"]
    /\ UNCHANGED <<dbPassword, dbVersion, uriCache, key, bodyRuns, backendCalls,
                   expired, calls>>
    /\ UNCHANGED <<dsVars, rankVars>>

\* The session's script run is over; the session may rerun.
Finish(c) ==
    /\ pc[c] = "done"
    /\ pc' = [pc EXCEPT ![c] = "idle"]
    /\ ret' = [ret EXCEPT ![c] = NoRet]
    /\ UNCHANGED <<dbPassword, dbVersion, uriCache, cache, lock, key, pending,
                   bodyRuns, backendCalls, expired, calls>>
    /\ UNCHANGED <<dsVars, rankVars>>

\* The ttl of an entry (300 s or 60 s) elapses.
Expire(k) ==
    /\ cache[k].present
    /\ cache' = [cache EXCEPT ![k] = NoEntry]
    /\ expired' = [expired EXCEPT ![k] = TRUE]
    /\ UNCHANGED <<dbPassword, dbVersion, uriCache, lock, pc, key, ret, pending,
                   bodyRuns, backendCalls, calls>>
    /\ UNCHANGED <<dsVars, rankVars>>

\* The collector writes new rows: the database content changes.
BackendUpdate ==
    /\ dbVersion = "rows_1"
    /\ dbVersion' = "rows_2"
    /\ UNCHANGED <<dbPassword, uriCache, cache, lock, pc, key, ret, pending,
                   bodyRuns, backendCalls, expired, calls>>
    /\ UNCHANGED <<dsVars, rankVars>>

IdleCache ==
    /\ dbPassword = TRUE
    /\ dbVersion = "rows_1"
    /\ uriCache = {}
    /\ cache = [k \in Keys |-> NoEntry]
    /\ lock = [k \in Keys |-> 0]
    /\ pc = [c \in Callers |-> "idle"]
    /\ key = [c \in Callers |-> CHOOSE k \in Keys : TRUE]
    /\ ret = [c \in Callers |-> NoRet]
    /\ pending = [c \in Callers |-> NoEntry]
    /\ bodyRuns = [k \in Keys |-> 0]
    /\ backendCalls = [k \in Keys |-> 0]
    /\ expired = [k \in Keys |-> FALSE]
    /\ calls = 0

NextCache ==
    \/ \E c \in Callers, k \in Keys : Call(c, k)
    \/ \E c \in Callers : CacheRead(c)
    \/ \E c \in Callers : AcquireLock(c)
    \/ \E c \in Callers : Recheck(c)
    \/ \E c \in Callers, read \in ReadOutcomes : RunBody(c, read)
    \/ \E c \in Callers : WriteResult(c)
    \/ \E c \in Callers : Finish(c)
    \/ \E k \in Keys : Expire(k)
    \/ BackendUpdate

(***************************************************************************)
(* The downsampler (the second definition of downsample_data, which is the *)
(* one in force) and its use by render_chart_component.                    *)
(***************************************************************************)
MaxLen == 6          \* rows of a series
MaxK == 4            \* target_points
MaxVal == 1          \* values a row's open interest takes

DATA_LIMIT_RAW == 4000
SAMPLE_STEP == 4
CHART_TARGET_POINTS == 400

\* The most rows the fetch returns for one symbol: row 1 and every
\* SAMPLE_STEP-th row among the DATA_LIMIT_RAW most recent.
MaxFetchedRows == 1 + DATA_LIMIT_RAW \div SAMPLE_STEP

\* A frame of n rows as groupby hands it out: the labels of the index are a
\* contiguous run of df_all's RangeIndex starting at base.
Frame(base, vals) == [i \in 1..Len(vals) |-> [idx |-> base + i - 1, oi |-> vals[i]]]

SeqsUpTo(S, n) == UNION { [1..m -> S] : m \in 0..n }

\* Series lengths of the size the fetch really returns.
FetchedLens == {CHART_TARGET_POINTS, CHART_TARGET_POINTS + 1,
                2 * CHART_TARGET_POINTS - 1, MaxFetchedRows}

\* df.iloc[::step]: the rows at positions 0, step, 2*step, ...
Stride(s, step) == [i \in 1..((Len(s) - 1) \div step + 1) |-> s[(i - 1) * step + 1]]

\* df.index[-1] in df_sampled.index
LastLabelIn(s, sampled) == \E i \in 1..Len(sampled) : sampled[i].idx = s[Len(s)].idx

\* A downsampler that strides and never appends the last row.
downsample_no_append(s, k) ==
    IF Len(s) <= k THEN s ELSE Stride(s, Len(s) \div k)

\* A downsampler that appends the last row without looking for it.
downsample_always_append(s, k) ==
    IF Len(s) <= k THEN s
    ELSE Append(Stride(s, Len(s) \div k), s[Len(s)])

downsample_data(s, k) ==
    IF Len(s) <= k THEN s
    ELSE LET step == Len(s) \div k
             sampled == Stride(s, step)
         IN IF ~LastLabelIn(s, sampled)
            THEN Append(sampled, s[Len(s)])
            ELSE sampled

NotRun == <<[idx |-> -1, oi |-> -1]>>

IdleDownsample ==
    /\ df = <<>>
    /\ target_points = 1
    /\ df_sampled = NotRun
    /\ df_resampled = NotRun
    /\ chart_df = NotRun
    /\ dsPc = "idle"

InitDownsample ==
    /\ \/ /\ \E base \in {0, MaxLen}, vals \in SeqsUpTo(0..MaxVal, MaxLen) :
               df = Frame(base, vals)
          /\ target_points \in 1..MaxK
       \/ /\ \E n \in FetchedLens : df = Frame(0, [i \in 1..n |-> 0])
          /\ target_points = CHART_TARGET_POINTS
    /\ df_sampled = NotRun
    /\ df_resampled = NotRun
    /\ chart_df = NotRun
    /\ dsPc = "start"

\* downsample_data(df, target_points)
Downsample ==
    /\ dsPc = "start"
    /\ df_sampled' = downsample_data(df, target_points)
    /\ dsPc' = "once"
    /\ UNCHANGED <<df, target_points, df_resampled, chart_df>>
    /\ UNCHANGED <<cacheVars, rankVars>>

\* The result is downsampled again with the same target.
Redownsample ==
    /\ dsPc = "once"
    /\ df_resampled' = downsample_data(df_sampled, target_points)
    /\ dsPc' = "twice"
    /\ UNCHANGED <<df, target_points, df_sampled, chart_df>>
    /\ UNCHANGED <<cacheVars, rankVars>>

\* render_chart_component: a symbol's non-empty frame is downsampled to 400
\* points for its chart.
RenderChart ==
    /\ dsPc = "start"
    /\ df # <<>>
    /\ chart_df' = downsample_data(df, CHART_TARGET_POINTS)
    /\ dsPc' = "charted"
    /\ UNCHANGED <<df, target_points, df_sampled, df_resampled>>
    /\ UNCHANGED <<cacheVars, rankVars>>

NextDownsample ==
    \/ Downsample
    \/ Redownsample
    \/ RenderChart


Max(a, b) == IF a >= b THEN a ELSE b

Last(s) == s[Len(s)]

\* C3: the last element of downsample_data(s, k) is the last element of s, for
\* every non-empty series and every target k >= 1, in the downsampling and in
\* the chart's series.
C3_LastElementKept ==
    /\ (dsPc \in {"once", "twice"} /\ df # <<>>) =>
          (df_sampled # <<>> /\ Last(df_sampled) = Last(df))
    /\ dsPc = "charted" => (chart_df # <<>> /\ Last(chart_df) = Last(df))

\* The stride missed the last row and the row was appended.
C3_Witness ==
    /\ dsPc = "once"
    /\ Len(df) > target_points
    /\ (Len(df) - 1) % (Len(df) \div target_points) # 0
    /\ Len(df_sampled) = (Len(df) - 1) \div (Len(df) \div target_points) + 2
    /\ Last(df_sampled) = Last(df)

\* C4: downsample_data(s, k) has at most max(k, 1) + 1 elements, and the chart
\* never receives more than 401 points.
C4_LengthBounded ==
    /\ dsPc \in {"once", "twice"} => Len(df_sampled) <= Max(target_points, 1) + 1
    /\ dsPc = "charted" => Len(chart_df) <= CHART_TARGET_POINTS + 1

\* C5: downsampling the downsampled series again with the same target changes
\* nothing, when the series is longer than the target.
C5_Idempotent ==
    (dsPc = "twice" /\ Len(df) > target_points) => df_resampled = df_sampled

\* A series was really reduced, its reduction is still longer than the target,
\* and the second pass went through the stride again.
C5_Witness ==
    /\ dsPc = "twice"
    /\ Len(df) > target_points
    /\ Len(df_sampled) < Len(df)
    /\ Len(df_sampled) > target_points
    /\ df_resampled = df_sampled


(***************************************************************************)
(* main_app after the fetches: the metrics loop, the two views and the     *)
(* remainder list.  Symbols are numbered in their lexicographic order:     *)
(* symbol 1 sorts before symbol 2.  Ratios are kept exact as num/den.      *)
(***************************************************************************)
NSymbols == 12       \* symbols of the universe
MaxVaried == 2       \* symbols whose data differ from the common series
MaxOi == 2           \* open interest values 0..MaxOi
MaxRows == 3         \* rows of a series in the one-symbol runs

TOP_N == 10

Symbols == 1..NSymbols

Row(p, o) == [price |-> p, oi |-> o]

\* token_info.get(field) is truthy: present, and not 0.
Truthy(opt) == opt # <<>> /\ opt[1] # 0

min_oi_of(rows) ==
    CHOOSE m \in {rows[i].oi : i \in 1..Len(rows)} :
        \A i \in 1..Len(rows) : m <= rows[i].oi

\* The ladder with the supply tier tried before the market-cap tier.
IntensitySupplyFirst(token_info, oi_growth_tokens, oi_growth_usd, min_oi) ==
    IF token_info # <<>> /\ Truthy(token_info[1].circulating_supply)
          /\ token_info[1].circulating_supply[1] > 0
    THEN [num |-> oi_growth_tokens, den |-> token_info[1].circulating_supply[1]]
    ELSE IF token_info # <<>> /\ Truthy(token_info[1].market_cap)
          /\ token_info[1].market_cap[1] > 0
    THEN [num |-> oi_growth_usd, den |-> token_info[1].market_cap[1]]
    ELSE IF min_oi > 0
    THEN [num |-> oi_growth_tokens, den |-> min_oi * 10]
    ELSE [num |-> 0, den |-> 1]

\* The intensity branches of the metrics loop; (x / min_oi) * 0.1 is
\* x / (min_oi * 10).
Intensity(token_info, oi_growth_tokens, oi_growth_usd, min_oi) ==
    IF token_info # <<>> /\ Truthy(token_info[1].market_cap)
          /\ token_info[1].market_cap[1] > 0
    THEN [num |-> oi_growth_usd, den |-> token_info[1].market_cap[1]]
    ELSE IF token_info # <<>> /\ Truthy(token_info[1].circulating_supply)
          /\ token_info[1].circulating_supply[1] > 0
    THEN [num |-> oi_growth_tokens, den |-> token_info[1].circulating_supply[1]]
    ELSE IF min_oi > 0
    THEN [num |-> oi_growth_tokens, den |-> min_oi * 10]
    ELSE [num |-> 0, den |-> 1]

\* The market_cap field of a metrics record: the cap used, else 0.
MarketCapUsed(token_info) ==
    IF token_info # <<>> /\ Truthy(token_info[1].market_cap)
          /\ token_info[1].market_cap[1] > 0
    THEN token_info[1].market_cap[1]
    ELSE 0

\* One pass of the loop body for a symbol with at least two rows.
MetricsOf(sym, rows, token_info) ==
    LET current_price == rows[Len(rows)].price
        min_oi == min_oi_of(rows)
        current_oi == rows[Len(rows)].oi
        oi_growth_tokens == current_oi - min_oi
        oi_growth_usd == oi_growth_tokens * current_price
    IN [symbol |-> sym,
        intensity |-> Intensity(token_info, oi_growth_tokens, oi_growth_usd, min_oi),
        oi_growth_usd |-> oi_growth_usd,
        market_cap |-> MarketCapUsed(token_info)]

\* bulk_data.items(): groupby yields the symbols that have rows, in sorted order.
RECURSIVE RankingLoop(_, _, _)
RankingLoop(sym, bulk, supply) ==
    IF sym > NSymbols THEN <<>>
    ELSE IF Len(bulk[sym]) < 2
    THEN RankingLoop(sym + 1, bulk, supply)
    ELSE <<MetricsOf(sym, bulk[sym], supply[sym])>>
            \o RankingLoop(sym + 1, bulk, supply)

\* Comparison of the two sort keys.
IntensityGt(a, b) == a.intensity.num * b.intensity.den > b.intensity.num * a.intensity.den
IntensityEq(a, b) == a.intensity.num * b.intensity.den = b.intensity.num * a.intensity.den
GrowthGt(a, b) == a.oi_growth_usd > b.oi_growth_usd
GrowthEq(a, b) == a.oi_growth_usd = b.oi_growth_usd

\* An entry put into a list sorted descending by intensity: after the entries
\* whose intensity is not smaller, so that equal keys keep their order.
RECURSIVE InsertByIntensity(_, _)
InsertByIntensity(sorted, x) ==
    IF sorted = <<>> THEN <<x>>
    ELSE IF IntensityGt(x, Head(sorted)) THEN <<x>> \o sorted
    ELSE <<Head(sorted)>> \o InsertByIntensity(Tail(sorted), x)

RECURSIVE InsertByIntensityAscending(_, _)
InsertByIntensityAscending(sorted, x) ==
    IF sorted = <<>> THEN <<x>>
    ELSE IF IntensityGt(Head(sorted), x) THEN <<x>> \o sorted
    ELSE <<Head(sorted)>> \o InsertByIntensityAscending(Tail(sorted), x)

RECURSIVE InsertByGrowth(_, _)
InsertByGrowth(sorted, x) ==
    IF sorted = <<>> THEN <<x>>
    ELSE IF GrowthGt(x, Head(sorted)) THEN <<x>> \o sorted
    ELSE <<Head(sorted)>> \o InsertByGrowth(Tail(sorted), x)

RECURSIVE SortPrefixByIntensityAscending(_, _)
SortPrefixByIntensityAscending(s, n) ==
    IF n = 0 THEN <<>>
    ELSE InsertByIntensityAscending(SortPrefixByIntensityAscending(s, n - 1), s[n])

RECURSIVE SortPrefixByIntensity(_, _)
SortPrefixByIntensity(s, n) ==
    IF n = 0 THEN <<>>
    ELSE InsertByIntensity(SortPrefixByIntensity(s, n - 1), s[n])

RECURSIVE SortPrefixByGrowth(_, _)
SortPrefixByGrowth(s, n) ==
    IF n = 0 THEN <<>>
    ELSE InsertByGrowth(SortPrefixByGrowth(s, n - 1), s[n])

\* The list sorted by intensity without reverse=True.
SortedByIntensityAscending(s) == SortPrefixByIntensityAscending(s, Len(s))

\* sorted(s, key=lambda x: x['intensity'], reverse=True): descending, and
\* stable: entries with equal keys keep the order they have in s.
SortedByIntensity(s) == SortPrefixByIntensity(s, Len(s))

\* sorted(s, key=lambda x: x['oi_growth_usd'], reverse=True)
SortedByGrowth(s) == SortPrefixByGrowth(s, Len(s))

\* s[:10]
Top(s) == SubSeq(s, 1, IF Len(s) < TOP_N THEN Len(s) ELSE TOP_N)

SymbolsOf(view) == {view[i].symbol : i \in 1..Len(view)}

\* Only the intensity view is collected.
ShownIntensityOnly(ti, tw) == SymbolsOf(ti)

\* shown_symbols after the two add loops.
Shown(ti, tw) == SymbolsOf(ti) \cup SymbolsOf(tw)

\* [s for s in target_symbols if s not in shown_symbols]
Remaining(targets, shown) ==
    LET keep(sym) == sym \notin shown IN SelectSeq(targets, keep)

NoInfo == <<>>
Info(mc, cs) == <<[market_cap |-> mc, circulating_supply |-> cs]>>

\* The series most symbols carry in the many-symbol runs, and what the varied
\* symbols carry instead: no rows, one row, large growth against a large cap,
\* the common growth against a small supply, no growth.
CommonData == [rows |-> <<Row(1, 1), Row(1, 2)>>, info |-> NoInfo]
Variants ==
    { [rows |-> <<>>, info |-> NoInfo],
      [rows |-> <<Row(1, 1)>>, info |-> NoInfo],
      [rows |-> <<Row(2, 0), Row(2, 2)>>, info |-> Info(<<100>>, <<>>)],
      [rows |-> <<Row(1, 1), Row(1, 2)>>, info |-> Info(<<>>, <<2>>)],
      [rows |-> <<Row(1, 1), Row(1, 1)>>, info |-> NoInfo] }

\* Orders the activity listing can put the symbols in.
TargetOrders ==
    { [i \in Symbols |-> i],
      [i \in Symbols |-> NSymbols + 1 - i],
      [i \in Symbols |-> (i % NSymbols) + 1] }

Prices == {1, 2}
RowSet == {Row(p, o) : p \in Prices, o \in 0..MaxOi}
OptSet == {<<>>, <<0>>, <<3>>}
InfoSet == {NoInfo} \cup {Info(mc, cs) : mc \in OptSet, cs \in OptSet}

IdleRank ==
    /\ target_symbols = <<>>
    /\ bulk_data = [sym \in Symbols |-> <<>>]
    /\ supply_data = [sym \in Symbols |-> NoInfo]
    /\ ranking_data = <<>>
    /\ top_intensity = <<>>
    /\ top_whales = <<>>
    /\ shown_symbols = {}
    /\ remaining_symbols = <<>>
    /\ rankPc = "idle"

\* Many symbols, few of them varied.
InitManySymbols ==
    /\ target_symbols \in TargetOrders
    /\ \E varied \in SUBSET Symbols :
          /\ Cardinality(varied) <= MaxVaried
          /\ \E data \in [varied -> Variants] :
                /\ bulk_data = [sym \in Symbols |->
                      IF sym \in varied THEN data[sym].rows ELSE CommonData.rows]
                /\ supply_data = [sym \in Symbols |->
                      IF sym \in varied THEN data[sym].info ELSE CommonData.info]

\* One symbol, every series and reference record of the value ranges.
InitOneSymbol ==
    /\ target_symbols = <<1>>
    /\ \E rows \in SeqsUpTo(RowSet, MaxRows), info \in InfoSet :
          /\ bulk_data = [sym \in Symbols |-> IF sym = 1 THEN rows ELSE <<>>]
          /\ supply_data = [sym \in Symbols |-> IF sym = 1 THEN info ELSE NoInfo]

InitRank ==
    /\ InitManySymbols \/ InitOneSymbol
    /\ ranking_data = <<>>
    /\ top_intensity = <<>>
    /\ top_whales = <<>>
    /\ shown_symbols = {}
    /\ remaining_symbols = <<>>
    /\ rankPc = "fetched"

\* if not bulk_data: st.warning(...); st.stop()
StopNoData ==
    /\ rankPc = "fetched"
    /\ \A sym \in Symbols : bulk_data[sym] = <<>>
    /\ rankPc' = "stopped"
    /\ UNCHANGED <<target_symbols, bulk_data, supply_data, ranking_data,
                   top_intensity, top_whales, shown_symbols, remaining_symbols>>
    /\ UNCHANGED <<cacheVars, dsVars>>

\* The metrics loop over bulk_data.items().
ComputeRanking ==
    /\ rankPc = "fetched"
    /\ ~(\A sym \in Symbols : bulk_data[sym] = <<>>)
    /\ ranking_data' = RankingLoop(1, bulk_data, supply_data)
    /\ rankPc' = "ranked"
    /\ UNCHANGED <<target_symbols, bulk_data, supply_data, top_intensity,
                   top_whales, shown_symbols, remaining_symbols>>
    /\ UNCHANGED <<cacheVars, dsVars>>

\* The two views: sorted descending by their key and cut to ten.
BuildViews ==
    /\ rankPc = "ranked"
    /\ top_intensity' = IF ranking_data # <<>>
                        THEN Top(SortedByIntensity(ranking_data))
                        ELSE <<>>
    /\ top_whales' = IF ranking_data # <<>>
                     THEN Top(SortedByGrowth(ranking_data))
                     ELSE <<>>
    /\ rankPc' = "viewed"
    /\ UNCHANGED <<target_symbols, bulk_data, supply_data, ranking_data,
                   shown_symbols, remaining_symbols>>
    /\ UNCHANGED <<cacheVars, dsVars>>

\* The remainder list: the target symbols shown in neither view.
BuildRemainder ==
    /\ rankPc = "viewed"
    /\ shown_symbols' = Shown(top_intensity, top_whales)
    /\ remaining_symbols' = Remaining(target_symbols, Shown(top_intensity, top_whales))
    /\ rankPc' = "done"
    /\ UNCHANGED <<target_symbols, bulk_data, supply_data, ranking_data,
                   top_intensity, top_whales>>
    /\ UNCHANGED <<cacheVars, dsVars>>

NextRank ==
    \/ StopNoData
    \/ ComputeRanking
    \/ BuildViews
    \/ BuildRemainder

Viewed == rankPc \in {"viewed", "done"}

RankedEntries == {ranking_data[i] : i \in 1..Len(ranking_data)}

\* The place of a symbol in the fetched symbol list.
TargetPos(sym) == CHOOSE i \in 1..Len(target_symbols) : target_symbols[i] = sym

MinOf(S) == CHOOSE m \in S : \A x \in S : m <= x

Present(opt) == opt # <<>>

\* C6: intensity follows the three-tier ladder, first satisfied tier winning:
\* growth * price / market_cap when market_cap is present and > 0; else
\* growth / circulating_supply when that is present and > 0; else
\* (growth / min_oi) * 0.1 when min_oi > 0; else 0.  No denominator is zero.
C6_IntensityLadder ==
    rankPc \in {"ranked", "viewed", "done"} =>
      \A e \in RankedEntries :
        LET rows == bulk_data[e.symbol]
            info == supply_data[e.symbol]
            lo == MinOf({rows[i].oi : i \in 1..Len(rows)})
            growth == rows[Len(rows)].oi - lo
            price == rows[Len(rows)].price
            capOk == info # <<>> /\ Present(info[1].market_cap)
                        /\ info[1].market_cap[1] > 0
            supplyOk == info # <<>> /\ Present(info[1].circulating_supply)
                        /\ info[1].circulating_supply[1] > 0
            n == e.intensity.num
            d == e.intensity.den
        IN /\ Len(rows) >= 2
           /\ d > 0
           /\ IF capOk THEN n * info[1].market_cap[1] = growth * price * d
              ELSE IF supplyOk THEN n * info[1].circulating_supply[1] = growth * d
              ELSE IF lo > 0 THEN n * (lo * 10) = growth * d
              ELSE n = 0

\* A symbol whose market_cap is present but 0 and whose supply is positive was
\* ranked with positive growth: the second tier was used.
C6_Witness ==
    /\ rankPc = "ranked"
    /\ \E e \in RankedEntries :
          /\ supply_data[e.symbol] = Info(<<0>>, <<3>>)
          /\ e.intensity.num > 0
          /\ e.intensity.den = 3

\* C7: each view has at most 10 entries, holds only symbols with at least two
\* rows, is sorted descending by its key, and no ranked symbol left out of a
\* view has a larger key than an entry of the view.
C7_ViewsSortedAndCut ==
    Viewed =>
      LET ranked == RankedEntries
          outI == {e \in ranked : e.symbol \notin SymbolsOf(top_intensity)}
          outW == {e \in ranked : e.symbol \notin SymbolsOf(top_whales)}
      IN /\ Len(top_intensity) <= TOP_N
         /\ Len(top_whales) <= TOP_N
         /\ \A i \in 1..Len(top_intensity) :
               /\ top_intensity[i] \in ranked
               /\ Len(bulk_data[top_intensity[i].symbol]) >= 2
               /\ i > 1 => ~IntensityGt(top_intensity[i], top_intensity[i - 1])
               /\ \A e \in outI : ~IntensityGt(e, top_intensity[i])
         /\ \A i \in 1..Len(top_whales) :
               /\ top_whales[i] \in ranked
               /\ Len(bulk_data[top_whales[i].symbol]) >= 2
               /\ i > 1 => ~GrowthGt(top_whales[i], top_whales[i - 1])
               /\ \A e \in outW : ~GrowthGt(e, top_whales[i])

\* More than ten symbols were ranked, one symbol was too short to rank, and
\* the two views were cut to ten and differ.
C7_Witness ==
    /\ rankPc = "viewed"
    /\ Len(ranking_data) > TOP_N
    /\ \E sym \in Symbols : Len(bulk_data[sym]) = 1
    /\ Len(top_intensity) = TOP_N /\ Len(top_whales) = TOP_N
    /\ SymbolsOf(top_intensity) # SymbolsOf(top_whales)
    /\ \E i \in 2..TOP_N : IntensityGt(top_intensity[i - 1], top_intensity[i])

\* C8: of two symbols with equal sort key, the one earlier in target_symbols
\* is earlier in the view, and at the cut-off it is the one that is kept.
C8_TiesByFetchOrder ==
    Viewed =>
      LET outI == {e \in RankedEntries : e.symbol \notin SymbolsOf(top_intensity)}
          outW == {e \in RankedEntries : e.symbol \notin SymbolsOf(top_whales)}
      IN
      /\ \A i, j \in 1..Len(top_intensity) :
            (i < j /\ IntensityEq(top_intensity[i], top_intensity[j])) =>
                TargetPos(top_intensity[i].symbol) < TargetPos(top_intensity[j].symbol)
      /\ \A i, j \in 1..Len(top_whales) :
            (i < j /\ GrowthEq(top_whales[i], top_whales[j])) =>
                TargetPos(top_whales[i].symbol) < TargetPos(top_whales[j].symbol)
      /\ \A i \in 1..Len(top_intensity) : \A e \in outI :
            IntensityEq(e, top_intensity[i]) =>
                TargetPos(top_intensity[i].symbol) < TargetPos(e.symbol)
      /\ \A i \in 1..Len(top_whales) : \A e \in outW :
            GrowthEq(e, top_whales[i]) =>
                TargetPos(top_whales[i].symbol) < TargetPos(e.symbol)

TargetSet == {target_symbols[i] : i \in 1..Len(target_symbols)}

RemainingSet == {remaining_symbols[i] : i \in 1..Len(remaining_symbols)}

\* C9: the remainder is target_symbols minus the symbols of the two views, in
\* target order: every target symbol is in exactly one of the two, no symbol
\* is twice in the remainder, and the symbols too short to rank are in it.
C9_RemainderPartition ==
    rankPc = "done" =>
      LET inViews == SymbolsOf(top_intensity) \cup SymbolsOf(top_whales)
          rest == RemainingSet
      IN /\ \A t \in TargetSet : (t \in inViews) # (t \in rest)
         /\ rest \subseteq TargetSet
         /\ \A i, j \in 1..Len(remaining_symbols) :
               i < j => TargetPos(remaining_symbols[i]) < TargetPos(remaining_symbols[j])
         /\ \A t \in TargetSet : Len(bulk_data[t]) < 2 => t \in rest

\* A symbol is in both views, another in one view only, and a symbol too short
\* to rank is in the remainder, with the targets not in lexicographic order.
C9_Witness ==
    /\ rankPc = "done"
    /\ target_symbols[1] # 1
    /\ SymbolsOf(top_intensity) \cap SymbolsOf(top_whales) # {}
    /\ SymbolsOf(top_whales) \ SymbolsOf(top_intensity) # {}
    /\ \E t \in RemainingSet : Len(bulk_data[t]) = 1

InitRankAll == IdleCache /\ IdleDownsample /\ InitRank

SpecRank == InitRankAll /\ [][NextRank]_vars

InitDownsampleAll == IdleCache /\ InitDownsample /\ IdleRank

SpecDownsample == InitDownsampleAll /\ [][NextDownsample]_vars

Init == InitCache /\ IdleDownsample /\ IdleRank

Next == NextCache

Spec == Init /\ [][Next]_vars

BulkKey(k) == k.fn = "fetch_bulk_data_one_shot"

\* The keys whose body reads the database.
ReadsDb(k) == ~(BulkKey(k) /\ k.arg = <<>>)

\* Every session has called key k and its call is over.
AllCalled(k) == \A c \in Callers : pc[c] = "done" /\ key[c] = k

\* C1: a failed computation is never stored in the cache: no cache entry holds
\* the result of a call whose backend read failed.
C1_FailedComputationNotStored ==
    \A k \in Keys : cache[k].present => ~cache[k].fromFailure

\* C2 (as stated): when all sessions have called the same key from an empty
\* cache, within the TTL, the producer ran exactly once and every session
\* received that one result.
C2_ExactlyOneInvocation ==
    \A k \in Keys :
        (AllCalled(k) /\ ~expired[k]) =>
            /\ bodyRuns[k] = 1
            /\ \A c, d \in Callers :
                  /\ ret[c].outcome = "returned"
                  /\ ret[c].value = ret[d].value

\* C2 (amended): within the TTL the backend is read at most once per key; and
\* when the producer can run (DB_PASSWORD is configured, or the call is the
\* empty-list fetch) the body runs at most once, exactly once when all sessions
\* have called the key, and every session receives that one result.
C2_CoalescedWhenProducerRuns ==
    \A k \in Keys :
        ~expired[k] =>
            /\ backendCalls[k] <= 1
            /\ (dbPassword \/ ~ReadsDb(k)) =>
                  /\ bodyRuns[k] <= 1
                  /\ AllCalled(k) =>
                        /\ bodyRuns[k] = 1
                        /\ backendCalls[k] = IF ReadsDb(k) THEN 1 ELSE 0
                        /\ \A c, d \in Callers :
                              /\ ret[c].outcome = "returned"
                              /\ ret[c].value = ret[d].value

\* Two sessions missed on the same key; one computed, the other waited for the
\* lock and was served the computed value by the second lookup.
C2_Witness ==
    \E k \in Keys :
        /\ ReadsDb(k) /\ dbPassword /\ ~expired[k] /\ AllCalled(k)
        /\ \E c, d \in Callers : ret[c].via = "compute" /\ ret[d].via = "recheck"

\* C10: the series fetch never lets an error escape: with an empty symbol list
\* it returns the empty mapping and no backend call is made for that key, and
\* a call whose backend read or conversion failed returns the empty mapping.
C10_FetchNeverRaises ==
    /\ \A k \in Keys : (BulkKey(k) /\ k.arg = <<>>) => backendCalls[k] = 0
    /\ \A c \in Callers :
          (pc[c] = "done" /\ BulkKey(key[c])) =>
              /\ ret[c].outcome # "raised"
              /\ key[c].arg = <<>> =>
                    (ret[c].outcome = "returned" /\ ret[c].value = EMPTY)
              /\ ret[c].failed =>
                    (ret[c].outcome = "returned" /\ ret[c].value = EMPTY)

\* One session fetched with an empty list, another had its backend read fail.
C10_Witness ==
    \E c, d \in Callers :
        /\ pc[c] = "done" /\ BulkKey(key[c]) /\ key[c].arg = <<>>
        /\ ret[c].via = "compute"
        /\ pc[d] = "done" /\ BulkKey(key[d]) /\ key[d].arg # <<>>
        /\ ret[d].via = "compute" /\ ret[d].failed

====
